---- MODULE Spec2Model ----
(***************************************************************************)
(* Model of tools/push_csv_to_gsheet.py: a CSV file is pushed into a tab   *)
(* of a remote spreadsheet, either replacing the tab or appending to it    *)
(* after reconciling the header row.  Two invocations of the script run    *)
(* against the same CSV file and the same tab.                             *)
(*                                                                         *)
(* A cell is a sequence of one-character strings, so that str.strip() is   *)
(* computed and not assumed.  A row is a sequence of cells, the tab and    *)
(* the CSV file are sequences of rows.                                     *)
(***************************************************************************)
EXTENDS Integers, Sequences, FiniteSets, TLC

VARIABLES
    csvReadable,  \* open(csv_path) succeeds
    csvFile,      \* rows csv.reader yields for the file
    env,          \* GOOGLE_SERVICE_ACCOUNT_JSON: "absent", "empty", "garbage", "json"
    tabExists,    \* the spreadsheet has a worksheet named args.tab
    tab,          \* the values of that worksheet, row by row
    pc,           \* per invocation: position in main()
    mode,         \* per invocation: args.mode
    header,       \* per invocation: local `header`
    data,         \* per invocation: local `data`
    existing,     \* per invocation: local `existing`
    ops,          \* per invocation: remote calls issued so far, in order
    err,          \* per invocation: the exception that ended it, or "none"
    exitCode,     \* per invocation: process exit status, -1 while running
    overlap       \* history: an invocation started while another was mid-run

vars == <<csvReadable, csvFile, env, tabExists, tab, pc, mode, header, data,
          existing, ops, err, exitCode, overlap>>

Procs == {1, 2}

-----------------------------------------------------------------------------
(* Bounds of the input space *)

MaxCols == 2       \* SpecHeader: widest generated header and row 1
MaxData == 1       \* Spec: most data rows in the CSV file
MaxRest == 1       \* Spec: most rows of the tab below row 1

(* Cell values: empty, blank, plain, padded, and a case variant *)
E == <<>>
B == <<" ">>
La == <<"a">>
Pa == <<" ", "a", " ">>
Ua == <<"A">>

Cells == { E, B, La, Pa, Ua }

(* Rows for the header and for row 1 of the tab: equal, equal up to padding
   or trailing empties, different by case, by a leading or an internal empty
   cell, and blank rows *)
KeyRows ==
    { <<La>>, <<Pa>>, <<Ua>>, <<La, E>>, <<E, La>>, <<La, Ua>>, <<La, Ua, E>>,
      <<La, Ua, B>>, <<La, E, Ua>>, <<E>>, <<B, E>>, <<E, E, E>> }

(* Rows that only carry payload (data rows, rows below row 1) *)
PayloadRows == { <<La>>, <<Ua, B>> }

RowsUpTo(n) == UNION { [1..k -> Cells] : k \in 1..n }

SeqsUpTo(S, n) == UNION { [1..k -> S] : k \in 0..n }

-----------------------------------------------------------------------------
(* Pure helpers *)

IsSpace(ch) == ch = " "

RECURSIVE lstrip(_)
lstrip(c) ==
    IF c = <<>> THEN <<>>
    ELSE IF IsSpace(Head(c)) THEN lstrip(Tail(c)) ELSE c

RECURSIVE rstrip(_)
rstrip(c) ==
    IF c = <<>> THEN <<>>
    ELSE IF IsSpace(c[Len(c)]) THEN rstrip(SubSeq(c, 1, Len(c) - 1)) ELSE c

strip(c) == rstrip(lstrip(c))

RECURSIVE pop_trailing_empties(_)
pop_trailing_empties(r2) ==
    IF r2 # <<>> /\ r2[Len(r2)] = <<>>
    THEN pop_trailing_empties(SubSeq(r2, 1, Len(r2) - 1))
    ELSE r2

(* faulty variant: trailing empty cells are kept *)
norm_row_keep_trailing(r) == [i \in 1..Len(r) |-> strip(r[i])]

norm_row(r) ==
    pop_trailing_empties([i \in 1..Len(r) |-> strip(r[i])])

all_blank(first) == \A i \in 1..Len(first) : strip(first[i]) = <<>>

(* faulty variant: an empty file gives a header of one empty cell *)
read_csv_blank_header(rows) ==
    IF rows = <<>> THEN <<<<E>>, <<>>>>
    ELSE <<Head(rows), Tail(rows)>>

read_csv(rows) ==
    IF rows = <<>> THEN <<<<>>, <<>>>>
    ELSE <<Head(rows), Tail(rows)>>

(* faulty variant: the blank test comes before the equality test *)
HeaderAction_blank_first(ex, hdr) ==
    IF ex = <<>> THEN "append_row"
    ELSE IF all_blank(ex[1]) THEN "update_A1"
    ELSE IF norm_row(ex[1]) = norm_row(hdr) THEN "none"
    ELSE "insert_row"

(* The header branch main() takes in append mode *)
HeaderAction(ex, hdr) ==
    IF ex = <<>> THEN "append_row"
    ELSE IF norm_row(ex[1]) = norm_row(hdr) THEN "none"
    ELSE IF all_blank(ex[1]) THEN "update_A1"
    ELSE "insert_row"

-----------------------------------------------------------------------------
(* The worksheet operations the script calls *)

Overlay(old, new) ==
    new \o (IF Len(old) > Len(new) THEN SubSeq(old, Len(new) + 1, Len(old)) ELSE <<>>)

(* faulty variant: the block replaces the whole tab *)
WriteBlock_whole_tab(t, block) == block

(* ws.update(values) / ws.update("A1", values): write a block at A1 *)
WriteBlock(t, block) ==
    [i \in 1..(IF Len(t) > Len(block) THEN Len(t) ELSE Len(block)) |->
        IF i > Len(block) THEN t[i]
        ELSE IF i > Len(t) THEN block[i]
        ELSE Overlay(t[i], block[i])]

(* faulty variant: clear() leaves the values in place *)
ClearTab_keeps(t) == t

(* ws.clear() *)
ClearTab(t) == <<>>

(* faulty variant: the rows go above the first row *)
AppendRows_on_top(t, rows) == rows \o t

(* ws.append_row(row) / ws.append_rows(rows) *)
AppendRows(t, rows) == t \o rows

(* faulty variant: the row goes below the last row *)
InsertRow_at_end(t, row) == t \o <<row>>

(* ws.insert_row(row, 1) *)
InsertRowAt1(t, row) == <<row>> \o t

ApplyHeader(act, t, hdr) ==
    CASE act = "append_row" -> AppendRows(t, <<hdr>>)
      [] act = "update_A1"  -> WriteBlock(t, <<hdr>>)
      [] act = "insert_row" -> InsertRowAt1(t, hdr)
      [] OTHER              -> t

-----------------------------------------------------------------------------
(* Initial states *)

Terminal == {"done", "failed"}

TabInit ==
    { <<>> } \cup
    { <<f>> \o rest : f \in KeyRows, rest \in SeqsUpTo(PayloadRows, MaxRest) }

CsvInit ==
    { <<>> } \cup
    { <<h>> \o d : h \in KeyRows \cup { <<>> },
                   d \in SeqsUpTo(PayloadRows, MaxData) }

(* One invocation, generated headers and first rows *)
TabInitHeader ==
    { <<>> } \cup
    { <<f>> \o rest : f \in RowsUpTo(MaxCols) \cup KeyRows,
                      rest \in { <<>>, <<<<Ua, B>>>> } }

CsvInitHeader ==
    { <<h>> \o d : h \in RowsUpTo(MaxCols) \cup KeyRows,
                   d \in { <<>>, <<<<La>>>> } }

(* Two overlapping invocations *)
TabInitConc == { <<>>, <<<<La>>>>, <<<<Ua>>, <<La>>>>, <<<<B, E>>, <<La>>>> }

CsvInitConc == { <<>>, <<<<La>>>>, <<<<La>>, <<Ua, B>>>>, <<<<Pa, E>>, <<La>>>> }

Locals ==
    /\ pc = [p \in Procs |-> "start"]
    /\ header = [p \in Procs |-> <<>>]
    /\ data = [p \in Procs |-> <<>>]
    /\ existing = [p \in Procs |-> <<>>]
    /\ ops = [p \in Procs |-> <<>>]
    /\ err = [p \in Procs |-> "none"]
    /\ exitCode = [p \in Procs |-> -1]
    /\ overlap = FALSE

InitHeader ==
    /\ csvReadable = TRUE
    /\ csvFile \in CsvInitHeader
    /\ env = "json"
    /\ tabExists \in BOOLEAN
    /\ tab \in TabInitHeader
    /\ (~tabExists => tab = <<>>)
    /\ mode \in { [p \in Procs |-> m] : m \in {"replace", "append"} }
    /\ Locals

InitConc ==
    /\ csvReadable = TRUE
    /\ csvFile \in CsvInitConc
    /\ env = "json"
    /\ tabExists \in BOOLEAN
    /\ tab \in TabInitConc
    /\ (~tabExists => tab = <<>>)
    /\ mode \in [Procs -> {"replace", "append"}]
    /\ Locals

Init ==
    /\ csvReadable \in BOOLEAN
    /\ csvFile \in CsvInit
    /\ env \in {"absent", "empty", "garbage", "json"}
    /\ tabExists \in BOOLEAN
    /\ tab \in TabInit
    /\ (~tabExists => tab = <<>>)
    /\ (~csvReadable => csvFile = <<>>)
    /\ mode \in [Procs -> {"replace", "append"}]
    /\ Locals

-----------------------------------------------------------------------------
(* Steps of one invocation *)

Running(q) == pc[q] \notin Terminal /\ pc[q] # "start"

(* faulty variant: the error is recorded and the call is tried again *)
Raise_and_retry(p, e) ==
    /\ pc' = pc
    /\ err' = [err EXCEPT ![p] = e]
    /\ exitCode' = [exitCode EXCEPT ![p] = 1]

(* an exception nobody catches ends the process with a non-zero status *)
Raise(p, e) ==
    /\ pc' = [pc EXCEPT ![p] = "failed"]
    /\ err' = [err EXCEPT ![p] = e]
    /\ exitCode' = [exitCode EXCEPT ![p] = 1]

Return0(p) ==
    /\ pc' = [pc EXCEPT ![p] = "done"]
    /\ exitCode' = [exitCode EXCEPT ![p] = 0]
    /\ err' = err

Goto(p, l) ==
    /\ pc' = [pc EXCEPT ![p] = l]
    /\ UNCHANGED <<err, exitCode>>

Issue(p, name) == ops' = [ops EXCEPT ![p] = Append(@, name)]

(* header, data = read_csv(args.csv); if not header: return 0 *)
ReadCsv(p) ==
    /\ pc[p] = "start"
    /\ overlap' = (overlap \/ \E q \in Procs \ {p} : Running(q))
    /\ IF ~csvReadable
       THEN /\ Raise(p, "IOError")
            /\ UNCHANGED <<header, data>>
       ELSE LET hd == read_csv(csvFile) IN
            /\ header' = [header EXCEPT ![p] = hd[1]]
            /\ data' = [data EXCEPT ![p] = hd[2]]
            /\ IF hd[1] = <<>> THEN Return0(p) ELSE Goto(p, "client")
    /\ UNCHANGED <<csvReadable, csvFile, env, tabExists, tab, mode, existing, ops>>

(* faulty variant: only an unset variable counts as missing *)
CredMissing_only_absent(v) == v = "absent"

(* `not sa_json` *)
CredMissing(v) == v \in {"absent", "empty"}

(* gc = get_gspread_client() *)
GetClient(p) ==
    /\ pc[p] = "client"
    /\ IF CredMissing(env) THEN Raise(p, "ConfigError")
       ELSE IF env = "garbage" THEN Raise(p, "ValueError")
       ELSE Goto(p, "open")
    /\ UNCHANGED <<csvReadable, csvFile, env, tabExists, tab, mode, header, data,
                   existing, ops, overlap>>

(* sh = gc.open_by_key(args.sheet_id) *)
OpenByKey(p) ==
    /\ pc[p] = "open"
    /\ Issue(p, "open_by_key")
    /\ \E ok \in BOOLEAN :
        IF ok THEN Goto(p, "ws") ELSE Raise(p, "RemoteError")
    /\ UNCHANGED <<csvReadable, csvFile, env, tabExists, tab, mode, header, data,
                   existing, overlap>>

AfterWs(p) == IF mode[p] = "replace" THEN "clear" ELSE "read"

(* get_or_create_worksheet: return sh.worksheet(tab_name) *)
Worksheet(p) ==
    /\ pc[p] = "ws"
    /\ Issue(p, "worksheet")
    /\ \E ok \in BOOLEAN :
        IF ~ok THEN Raise(p, "RemoteError")
        ELSE IF tabExists THEN Goto(p, AfterWs(p))
        ELSE Goto(p, "addws")
    /\ UNCHANGED <<csvReadable, csvFile, env, tabExists, tab, mode, header, data,
                   existing, overlap>>

(* get_or_create_worksheet: except WorksheetNotFound: return sh.add_worksheet(...)
   A title that exists by now is refused. *)
AddWorksheet(p) ==
    /\ pc[p] = "addws"
    /\ Issue(p, "add_worksheet")
    /\ \E ok \in BOOLEAN :
        IF ok /\ ~tabExists
        THEN /\ tabExists' = TRUE
             /\ tab' = <<>>
             /\ Goto(p, AfterWs(p))
        ELSE /\ Raise(p, "RemoteError")
             /\ UNCHANGED <<tabExists, tab>>
    /\ UNCHANGED <<csvReadable, csvFile, env, mode, header, data, existing, overlap>>

(* ws.clear() *)
Clear(p) ==
    /\ pc[p] = "clear"
    /\ Issue(p, "clear")
    /\ \E ok \in BOOLEAN :
        IF ok
        THEN /\ tab' = ClearTab(tab)
             /\ Goto(p, "update")
        ELSE /\ Raise(p, "RemoteError")
             /\ tab' = tab
    /\ UNCHANGED <<csvReadable, csvFile, env, tabExists, mode, header, data,
                   existing, overlap>>

(* ws.update([header] + data); return 0 *)
Update(p) ==
    /\ pc[p] = "update"
    /\ Issue(p, "update")
    /\ \E ok \in BOOLEAN :
        IF ok
        THEN /\ tab' = WriteBlock(tab, <<header[p]>> \o data[p])
             /\ Return0(p)
        ELSE /\ Raise(p, "RemoteError")
             /\ tab' = tab
    /\ UNCHANGED <<csvReadable, csvFile, env, tabExists, mode, header, data,
                   existing, overlap>>

(* existing = ws.get_all_values() *)
GetAllValues(p) ==
    /\ pc[p] = "read"
    /\ Issue(p, "get_all_values")
    /\ \E ok \in BOOLEAN :
        IF ok
        THEN /\ existing' = [existing EXCEPT ![p] = tab]
             /\ Goto(p, "header")
        ELSE /\ Raise(p, "RemoteError")
             /\ existing' = existing
    /\ UNCHANGED <<csvReadable, csvFile, env, tabExists, tab, mode, header, data,
                   overlap>>

(* the header branch: append_row / nothing / update("A1") / insert_row *)
HeaderStep(p) ==
    /\ pc[p] = "header"
    /\ LET act == HeaderAction(existing[p], header[p]) IN
        IF act = "none"
        THEN /\ Goto(p, "data")
             /\ UNCHANGED <<tab, ops>>
        ELSE /\ Issue(p, act)
             /\ \E ok \in BOOLEAN :
                 IF ok
                 THEN /\ tab' = ApplyHeader(act, tab, header[p])
                      /\ Goto(p, "data")
                 ELSE /\ Raise(p, "RemoteError")
                      /\ tab' = tab
    /\ UNCHANGED <<csvReadable, csvFile, env, tabExists, mode, header, data,
                   existing, overlap>>

(* if data: ws.append_rows(data, value_input_option="RAW"); return 0 *)
AppendData(p) ==
    /\ pc[p] = "data"
    /\ IF data[p] # <<>>
       THEN /\ Issue(p, "append_rows")
            /\ \E ok \in BOOLEAN :
                IF ok
                THEN /\ tab' = AppendRows(tab, data[p])
                     /\ Return0(p)
                ELSE /\ Raise(p, "RemoteError")
                     /\ tab' = tab
       ELSE /\ Return0(p)
            /\ UNCHANGED <<tab, ops>>
    /\ UNCHANGED <<csvReadable, csvFile, env, tabExists, mode, header, data,
                   existing, overlap>>

(* Invocations one after another: 2 starts once 1 has exited *)
Turn(p) == \A q \in Procs : q < p => pc[q] \in Terminal

Next ==
    \/ \E p \in Procs : Turn(p) /\ ReadCsv(p)
    \/ \E p \in Procs : Turn(p) /\ GetClient(p)
    \/ \E p \in Procs : Turn(p) /\ OpenByKey(p)
    \/ \E p \in Procs : Turn(p) /\ Worksheet(p)
    \/ \E p \in Procs : Turn(p) /\ AddWorksheet(p)
    \/ \E p \in Procs : Turn(p) /\ Clear(p)
    \/ \E p \in Procs : Turn(p) /\ Update(p)
    \/ \E p \in Procs : Turn(p) /\ GetAllValues(p)
    \/ \E p \in Procs : Turn(p) /\ HeaderStep(p)
    \/ \E p \in Procs : Turn(p) /\ AppendData(p)

Spec == Init /\ [][Next]_vars

(* A single invocation *)
NextHeader ==
    \/ ReadCsv(1)
    \/ GetClient(1)
    \/ OpenByKey(1)
    \/ Worksheet(1)
    \/ AddWorksheet(1)
    \/ Clear(1)
    \/ Update(1)
    \/ GetAllValues(1)
    \/ HeaderStep(1)
    \/ AppendData(1)

SpecHeader == InitHeader /\ [][NextHeader]_vars

(* Two invocations from two processes, interleaved freely *)
NextConc ==
    \/ \E p \in Procs : ReadCsv(p)
    \/ \E p \in Procs : GetClient(p)
    \/ \E p \in Procs : OpenByKey(p)
    \/ \E p \in Procs : Worksheet(p)
    \/ \E p \in Procs : AddWorksheet(p)
    \/ \E p \in Procs : Clear(p)
    \/ \E p \in Procs : Update(p)
    \/ \E p \in Procs : GetAllValues(p)
    \/ \E p \in Procs : HeaderStep(p)
    \/ \E p \in Procs : AppendData(p)

SpecConc == InitConc /\ [][NextConc]_vars

-----------------------------------------------------------------------------
(* Vocabulary of the properties *)

HeaderOps == {"append_row", "update_A1", "insert_row"}

Has(s, x) == \E i \in 1..Len(s) : s[i] = x

IsHeaderOp(x) == x \in HeaderOps

HeaderOpsOf(p) == SelectSeq(ops[p], IsHeaderOp)

LastOp(p) == ops[p][Len(ops[p])]

(* the remote call that raised, if one did *)
FailedAt(p, name) == err[p] = "RemoteError" /\ ops[p] # <<>> /\ LastOp(p) = name

(* invocation p has read the tab and has left the header branch *)
HeaderDecided(p) ==
    /\ mode[p] = "append"
    /\ Has(ops[p], "get_all_values")
    /\ ~FailedAt(p, "get_all_values")
    /\ pc[p] # "header"

(* str.strip() said without recursion: what lies between the first and the
   last character that is not a space *)
BlankCell(c) == \A i \in 1..Len(c) : c[i] = " "

Core(c) ==
    IF BlankCell(c) THEN <<>>
    ELSE LET ink == { i \in 1..Len(c) : c[i] # " " }
             lo == CHOOSE i \in ink : \A j \in ink : i <= j
             hi == CHOOSE i \in ink : \A j \in ink : j <= i
         IN SubSeq(c, lo, hi)

CoreAt(r, i) == IF i <= Len(r) THEN Core(r[i]) ELSE <<>>

(* equal cell by cell after trimming, a missing cell counting as empty *)
SameRow(r1, r2) ==
    \A i \in 1..(IF Len(r1) > Len(r2) THEN Len(r1) ELSE Len(r2)) :
        CoreAt(r1, i) = CoreAt(r2, i)

BlankRow(r) == \A i \in 1..Len(r) : BlankCell(r[i])

IsPrefix(s, t) == Len(s) <= Len(t) /\ SubSeq(t, 1, Len(s)) = s

IsSuffix(s, t) == Len(s) <= Len(t) /\ SubSeq(t, Len(t) - Len(s) + 1, Len(t)) = s

(* no later invocation has started: the tab is as invocation p left it *)
Latest(p) == \A q \in Procs : q > p => pc[q] = "start"

(* the header call of p was issued and did not raise *)
HeaderApplied(p, name) == HeaderOpsOf(p) = <<name>> /\ ~FailedAt(p, name)

-----------------------------------------------------------------------------
(* C1: in append mode the header action of a run is decided from the rows
   read, in this order: no rows -> append Header as a new row; row 1 equal
   to Header after normalization -> nothing; row 1 all blank -> overwrite
   row 1 (update at A1); otherwise -> insert Header at position 1.  At most
   one header call is issued, and a row 1 that neither matches nor is blank
   always gives the insertion. *)
C1_HeaderDecision ==
    /\ Len(HeaderOpsOf(1)) <= 1
    /\ (mode[1] = "append" /\ pc[1] = "header") => HeaderOpsOf(1) = <<>>
    /\ HeaderDecided(1) =>
         HeaderOpsOf(1) =
            IF existing[1] = <<>> THEN <<"append_row">>
            ELSE IF SameRow(existing[1][1], header[1]) THEN <<>>
            ELSE IF BlankRow(existing[1][1]) THEN <<"update_A1">>
            ELSE <<"insert_row">>

C1_Witness ==
    /\ pc[1] = "done"
    /\ mode[1] = "append"
    /\ existing[1] # <<>>
    /\ ~SameRow(existing[1][1], header[1])
    /\ ~BlankRow(existing[1][1])
    /\ HeaderOpsOf(1) = <<"insert_row">>
    /\ tab[1] = header[1]
    /\ tab[2] = existing[1][1]

(* C4: two rows are equal for the header test iff they agree cell by cell
   after trimming, trailing empty cells not counting.  When row 1 and Header
   are equal in that sense the header step issues no call and leaves the tab
   as read; when they are not (a leading or internal empty cell, letter
   case) a header call, overwrite or insert, is issued. *)
C4_Normalization ==
    /\ pc[1] = "start" =>
         /\ norm_row(<<La, Ua, E>>) = norm_row(<<La, Ua>>)
         /\ norm_row(<<Pa, B>>) = norm_row(<<La>>)
         /\ norm_row(<<E, La>>) # norm_row(<<La>>)
         /\ norm_row(<<La, E, Ua>>) # norm_row(<<La, Ua>>)
         /\ norm_row(<<La>>) # norm_row(<<Ua>>)
         /\ tab # <<>> =>
               ((norm_row(tab[1]) = norm_row(csvFile[1]))
                    <=> SameRow(tab[1], csvFile[1]))
    /\ (HeaderDecided(1) /\ existing[1] # <<>>) =>
         IF SameRow(existing[1][1], header[1])
         THEN /\ HeaderOpsOf(1) = <<>>
              /\ pc[1] = "data" => tab = existing[1]
         ELSE /\ Len(HeaderOpsOf(1)) = 1
              /\ HeaderOpsOf(1)[1] \in {"update_A1", "insert_row"}

C4_Witness ==
    /\ pc[1] = "data"
    /\ existing[1] # <<>>
    /\ existing[1][1] = <<La, Ua>>
    /\ header[1] = <<La, Ua, E>>
    /\ HeaderOpsOf(1) = <<>>
    /\ tab = existing[1]

-----------------------------------------------------------------------------
(* C2: replace mode issues clear and then one block write and never reads
   the rows of the tab; after a replace run with a non-empty Header the tab
   is exactly Header followed by the data rows, whatever it held before, and
   a second replace run with the same CSV leaves that same content. *)
C2_ReplaceIdempotent ==
    \A p \in Procs :
        mode[p] = "replace" =>
            /\ \/ IsPrefix(ops[p], <<"open_by_key", "worksheet", "clear", "update">>)
               \/ IsPrefix(ops[p], <<"open_by_key", "worksheet", "add_worksheet",
                                     "clear", "update">>)
            /\ (pc[p] = "done" /\ header[p] # <<>>) =>
                  /\ IsSuffix(<<"clear", "update">>, ops[p])
                  /\ Latest(p) => tab = <<csvFile[1]>> \o Tail(csvFile)

C2_Witness ==
    /\ mode[1] = "replace" /\ mode[2] = "replace"
    /\ pc[1] = "done" /\ pc[2] = "done"
    /\ Len(csvFile) = 2
    /\ ops[2] = <<"open_by_key", "worksheet", "clear", "update">>
    /\ tab = csvFile

(* C3: two append runs in sequence with the same CSV (non-empty Header, at
   least one data row): the first run leaves row 1 equal to Header under
   normalization, so the second run issues no header call, and the tab after
   the second run is the tab after the first run followed by a second copy
   of all data rows. *)
C3_AppendTwice ==
    (/\ mode[1] = "append" /\ mode[2] = "append"
     /\ pc[1] = "done" /\ header[1] # <<>> /\ data[1] # <<>>) =>
        /\ tab # <<>>
        /\ Latest(1) =>
              /\ SameRow(tab[1], csvFile[1])
              /\ IsSuffix(Tail(csvFile), tab)
        /\ HeaderOpsOf(2) = <<>>
        /\ pc[2] = "done" =>
              /\ tab = existing[2] \o Tail(csvFile)
              /\ IsSuffix(Tail(csvFile) \o Tail(csvFile), tab)
              /\ SameRow(tab[1], csvFile[1])

C3_Witness ==
    /\ mode[1] = "append" /\ mode[2] = "append"
    /\ pc[1] = "done" /\ pc[2] = "done"
    /\ HeaderOpsOf(1) = <<"insert_row">>
    /\ HeaderOpsOf(2) = <<>>
    /\ data[2] # <<>>
    /\ Len(tab) = Len(existing[1]) + 1 + 2 * Len(data[2])

(* C5: an append run keeps every row it read, unmodified and in order,
   except that an all-blank row 1 may be overwritten in place by Header.
   After an insert Header is row 1 and each former row i is row i+1; after an
   overwrite the header step has not changed the number of rows and rows
   2..n are untouched. *)
C5_PreservesRows ==
    \A p \in Procs :
        (HeaderDecided(p) /\ Latest(p)) =>
            LET ex == existing[p]
                k == IF HeaderApplied(p, "insert_row") THEN 1 ELSE 0
            IN  /\ Len(tab) >= Len(ex) + k
                /\ \A i \in 1..Len(ex) :
                      \/ tab[i + k] = ex[i]
                      \/ /\ i = 1
                         /\ HeaderApplied(p, "update_A1")
                         /\ BlankRow(ex[1])
                /\ HeaderApplied(p, "insert_row") => tab[1] = header[p]
                /\ HeaderApplied(p, "update_A1") =>
                      /\ IsPrefix(header[p], tab[1])
                      /\ pc[p] = "data" => Len(tab) = Len(ex)
                /\ pc[p] = "data" => Len(tab) <= Len(ex) + 1

C5_Witness ==
    /\ pc[1] = "done" /\ pc[2] = "start"
    /\ HeaderApplied(1, "insert_row")
    /\ Len(existing[1]) = 2
    /\ data[1] # <<>>
    /\ tab = <<header[1]>> \o existing[1] \o data[1]

-----------------------------------------------------------------------------
(* C6, as claimed: with the credential variable absent or empty every run
   ends in the configuration error with a non-zero exit, before the CSV is
   read and before any remote call, whatever the CSV holds. *)
C6_AsClaimed ==
    (csvReadable /\ env \in {"absent", "empty"}) =>
        \A p \in Procs :
            /\ ops[p] = <<>>
            /\ pc[p] \in {"start", "failed"}
            /\ pc[p] = "failed" =>
                  /\ err[p] = "ConfigError"
                  /\ exitCode[p] # 0
                  /\ header[p] = <<>>

(* C6, amended: with the credential variable absent or empty no remote call
   is ever issued.  The CSV is read first: a run whose CSV has a non-empty
   Header ends in the configuration error with a non-zero exit, after the
   CSV was read and before any remote call; a run whose CSV has no Header
   exits 0; an unreadable CSV ends the run with the I/O error. *)
C6_MissingCredential ==
    env \in {"absent", "empty"} =>
        \A p \in Procs :
            /\ ops[p] = <<>>
            /\ pc[p] \in {"start", "client", "done", "failed"}
            /\ pc[p] \in Terminal =>
                  IF ~csvReadable
                  THEN err[p] = "IOError" /\ exitCode[p] # 0
                  ELSE IF csvFile # <<>> /\ csvFile[1] # <<>>
                  THEN /\ pc[p] = "failed"
                       /\ err[p] = "ConfigError"
                       /\ exitCode[p] \notin {0, -1}
                       /\ header[p] = csvFile[1]
                       /\ data[p] = Tail(csvFile)
                  ELSE /\ pc[p] = "done"
                       /\ err[p] = "none"
                       /\ exitCode[p] = 0

C6_Witness ==
    /\ env = "empty"
    /\ mode[1] = "replace" /\ mode[2] = "append"
    /\ \A p \in Procs :
          /\ pc[p] = "failed"
          /\ err[p] = "ConfigError"
          /\ header[p] # <<>>
          /\ ops[p] = <<>>

(* C7: a CSV with zero rows loads as an empty Header and no data rows, and
   the run, in either mode, issues no remote call, leaves the tab as it was
   and exits 0. *)
C7_EmptyCsv ==
    /\ []((csvReadable /\ csvFile = <<>>) =>
            \A p \in Procs :
                /\ ops[p] = <<>>
                /\ pc[p] \in {"start", "done"}
                /\ pc[p] = "done" =>
                      /\ exitCode[p] = 0
                      /\ err[p] = "none"
                      /\ header[p] = <<>> /\ data[p] = <<>>)
    /\ [][(csvReadable /\ csvFile = <<>>) =>
            (tab' = tab /\ tabExists' = tabExists)]_vars

C7_Witness ==
    /\ csvReadable /\ csvFile = <<>>
    /\ env = "absent"
    /\ mode[1] = "replace" /\ mode[2] = "append"
    /\ pc[1] = "done" /\ pc[2] = "done"
    /\ exitCode[1] = 0 /\ exitCode[2] = 0
    /\ tab # <<>>

(* C8: in append mode the data append comes after the header step: it is
   the last call of the run, issued at most once, only when there are data
   rows and after the header call when the rows read required one.  After
   it the last len(DataRows) rows of the tab are the data rows in file
   order; with no data rows no append is issued and the run ends with the
   tab as the header step left it. *)
C8_DataAppend ==
    /\ [](\A p \in Procs :
            mode[p] = "append" =>
                /\ Len(SelectSeq(ops[p], LAMBDA x : x = "append_rows")) <= 1
                /\ Has(ops[p], "append_rows") =>
                      /\ LastOp(p) = "append_rows"
                      /\ data[p] # <<>>
                      /\ HeaderDecided(p)
                      /\ (existing[p] = <<>> \/ ~SameRow(existing[p][1], header[p])) =>
                            \E h \in HeaderOps :
                                ops[p][Len(ops[p]) - 1] = h /\ HeaderApplied(p, h)
                /\ (pc[p] = "done" /\ header[p] # <<>>) =>
                      IF data[p] # <<>>
                      THEN /\ Has(ops[p], "append_rows")
                           /\ Latest(p) => IsSuffix(Tail(csvFile), tab)
                      ELSE ~Has(ops[p], "append_rows"))
    /\ [][\A p \in Procs :
            (pc[p] = "data" /\ data[p] = <<>> /\ pc'[p] # "data") =>
                (pc'[p] = "done" /\ tab' = tab /\ ops' = ops)]_vars

C8_Witness ==
    /\ mode[1] = "append" /\ pc[1] = "done" /\ pc[2] = "start"
    /\ Len(data[1]) >= 1
    /\ IsSuffix(<<"get_all_values", "update_A1", "append_rows">>, ops[1])
    /\ Len(tab) = Len(existing[1]) + Len(data[1])
    /\ IsSuffix(data[1], tab)

(* C9: a remote call that fails ends the run with a non-zero exit; the run
   issues no further call and does not retry, and the failing step undoes
   nothing: what earlier calls wrote stays.  So a tab cleared and not
   rewritten, and a tab with the header written and no data appended, are
   left behind. *)
C9_NoRollback ==
    /\ [](\A p \in Procs :
            /\ err[p] # "none" => (pc[p] = "failed" /\ exitCode[p] \notin {0, -1})
            /\ pc[p] = "failed" => err[p] # "none"
            /\ (Latest(p) /\ FailedAt(p, "update")) => tab = <<>>
            /\ (Latest(p) /\ FailedAt(p, "append_rows")) =>
                  /\ HeaderApplied(p, "append_row") => tab = <<header[p]>>
                  /\ HeaderApplied(p, "insert_row") => tab = <<header[p]>> \o existing[p]
                  /\ HeaderApplied(p, "update_A1") =>
                        (IsPrefix(header[p], tab[1]) /\ Tail(tab) = Tail(existing[p]))
                  /\ HeaderOpsOf(p) = <<>> => tab = existing[p])
    /\ [][\A p \in Procs :
            err[p] # "none" => (ops'[p] = ops[p] /\ pc'[p] = pc[p])]_vars
    /\ [][\A p \in Procs :
            (err[p] = "none" /\ err'[p] # "none") =>
                (tab' = tab /\ tabExists' = tabExists)]_vars

C9_Witness ==
    /\ mode[1] = "replace" /\ FailedAt(1, "update")
    /\ mode[2] = "append" /\ FailedAt(2, "append_rows")
    /\ HeaderApplied(2, "append_row")
    /\ exitCode[1] # 0 /\ exitCode[2] # 0
    /\ tab = <<header[2]>>

(* C10: two append runs hold no lock between reading the rows and writing
   the header: overlapping, both can read the same rows and both append or
   insert Header, which leaves two header rows; runs that do not overlap
   complete at most one header call between them. *)
C10_SerialSingleHeader ==
    ~overlap =>
        Cardinality({ p \in Procs : \E h \in HeaderOps : HeaderApplied(p, h) }) <= 1

C10_Witness ==
    /\ overlap
    /\ mode[1] = "append" /\ mode[2] = "append"
    /\ existing[1] = existing[2]
    /\ \E h \in {"append_row", "insert_row"} :
          HeaderApplied(1, h) /\ HeaderApplied(2, h)
    /\ pc[1] = "done" /\ pc[2] = "done"
    /\ Len(tab) >= 2
    /\ tab[1] = csvFile[1] /\ tab[2] = csvFile[1]

====
